---- MODULE Spec2Model ----
(***************************************************************************)
(* Model of the order-placement engine of the Orders API:                  *)
(*   OrdersService.create / findAll / findOne  (orders.service.ts)         *)
(*   OrdersService.updateStatus                (orders.service.ts)         *)
(*   ProductsService.findByIds / update        (products.service.ts)       *)
(* The durable store is the Prisma/PostgreSQL database: an interactive     *)
(* $transaction buffers its writes until commit, its UPDATEs take row      *)
(* locks held until commit or rollback, and reads outside the transaction  *)
(* see committed rows only.                                                *)
(*                                                                         *)
(* Spec     : concurrent create() calls at one instant of the clock.       *)
(* SpecIdem : successive create() calls while the clock runs and the       *)
(*            eviction timers fire.                                        *)
(* SpecAdmin: create() calls together with order status updates and        *)
(*            catalog updates.                                             *)
(* SpecQuery: successive create() calls while the clock runs, read by      *)
(*            findAll.                                                     *)
(* SpecScale: successive create() calls handed to several instances of     *)
(*            the service over the one database.                           *)
(***************************************************************************)
EXTENDS Integers, Sequences, FiniteSets, TLC

VARIABLES
    products,      \* committed product rows: id -> [priceFils, stock, isActive]
    orders,        \* committed order rows (each with its line items)
    recentOrders,  \* OrdersService.recentOrders: cacheKey -> [timestamp, orderId]
    timers,        \* pending setTimeout callbacks: [cacheKey, fireAt, owner]
    now,           \* Date.now() in ms
    reqs,          \* one record per in-flight or finished create() call
    lastRec,       \* history: cacheKey -> last [orderId, at] ever recorded
    resp,          \* the last PATCH request and its response
    instance,      \* the service instance that handles the current call
    parked         \* recentOrders and timers of the other instances

vars == <<products, orders, recentOrders, timers, now, reqs, lastRec, resp,
          instance, parked>>

----------------------------------------------------------------------------
(* Bounds *)

MaxStockReqs == 2     \* concurrent create() calls in Spec
MaxIdemReqs == 3      \* successive create() calls in SpecIdem
MaxTicks == 4         \* clock advances in SpecIdem
TickMs == 2500        \* clock granularity in ms
MaxAdminReqs == 2     \* successive create() calls in SpecAdmin
MaxAdminOps == 2      \* status and catalog updates in SpecAdmin
MaxLiveReqs == 2      \* concurrent create() calls in SpecLive
MaxScaleReqs == 3     \* successive create() calls in SpecScale
MaxQueryReqs == 3     \* successive create() calls in SpecQuery
MaxInstances == 2     \* instances of the service in SpecScale

(* Program constants *)

WindowMs == 5000      \* duplicate-suppression window (orders.service.ts:41)
MaxLimit == 100       \* largest page size (PaginationDto, @Max(100))
EvictMs == 10000      \* eviction timer delay (orders.service.ts:153)

----------------------------------------------------------------------------
(* Universe of inputs *)

StockReqs == 1..MaxStockReqs
IdemReqs == 1..MaxIdemReqs
AdminReqs == 1..MaxAdminReqs
LiveReqs == 1..MaxLiveReqs
ScaleReqs == 1..MaxScaleReqs
QueryReqs == 1..MaxQueryReqs
Reqs == StockReqs \cup IdemReqs \cup AdminReqs \cup LiveReqs \cup ScaleReqs
           \cup QueryReqs
Instances == 1..MaxInstances
OrderIds == Reqs                 \* the order created by call r gets id r
Buyers == {"u1", "u2"}
ProductIds == {"p1", "p2", "p3"} \* rows of the product table
NoKey == ""                      \* absent / empty Idempotency-Key header
Keys == {NoKey, "k1"}
InitProducts ==
    [p \in ProductIds |->
        CASE p = "p1" -> [priceFils |-> 3, stock |-> 2, isActive |-> TRUE]
          [] p = "p2" -> [priceFils |-> 5, stock |-> 1, isActive |-> TRUE]
          [] p = "p3" -> [priceFils |-> 7, stock |-> 2, isActive |-> FALSE]]

Item(p, q) == [productId |-> p, qty |-> q]

Call(u, key, items) == [userId |-> u, key |-> key, items |-> items]

\* the create() calls of Spec: every way to be rejected, orders of one and
\* of two products, the same product ordered by two buyers, one call with
\* an idempotency key
StockCalls ==
    { Call("u1", NoKey, <<>>),
      Call("u1", NoKey, <<Item("p1", 0)>>),
      Call("u1", NoKey, <<Item("pX", 1)>>),
      Call("u1", NoKey, <<Item("p3", 1)>>),
      Call("u1", NoKey, <<Item("p1", 1), Item("p1", 1)>>),
      Call("u2", NoKey, <<Item("p1", 1), Item("p2", 2)>>),
      Call("u1", NoKey, <<Item("p2", 1)>>),
      Call("u2", NoKey, <<Item("p2", 1)>>),
      Call("u2", NoKey, <<Item("p1", 2)>>),
      Call("u1", NoKey, <<Item("p1", 1), Item("p2", 1)>>),
      Call("u2", NoKey, <<Item("p2", 1), Item("p1", 1)>>),
      Call("u1", "k1", <<Item("p1", 1)>>),
      Call("u2", NoKey, <<Item("p1", 1), Item("pX", 1)>>),
      Call("u2", NoKey, <<Item("p1", 1), Item("p3", 1)>>),
      Call("u1", NoKey, <<Item("p1", 0), Item("pX", 1)>>) }

\* the create() calls of SpecIdem: one order, with and without key, and
\* two retries with the same key and other item lists
IdemCalls ==
    { Call("u1", NoKey, <<Item("p1", 1)>>),
      Call("u1", "k1", <<Item("p1", 1)>>),
      Call("u2", "k1", <<Item("p1", 1)>>),
      Call("u1", "k1", <<>>),
      Call("u1", "k1", <<Item("pX", 1), Item("p1", 3)>>) }

\* the create() calls of SpecAdmin
AdminCalls ==
    { Call("u1", "k1", <<Item("p1", 1)>>),
      Call("u2", NoKey, <<Item("p1", 1), Item("p2", 1)>>) }

\* the create() calls of SpecLive: the same two products in opposite order
LiveCalls ==
    { Call("u1", "k1", <<Item("p1", 1), Item("p2", 1)>>),
      Call("u2", NoKey, <<Item("p2", 1), Item("p1", 1)>>) }

\* the create() calls of SpecEvict: the same key used by two buyers
EvictCalls ==
    { Call("u1", "k1", <<Item("p1", 1)>>),
      Call("u2", "k1", <<Item("p1", 1)>>) }

\* the create() calls of SpecQuery: two buyers, no token
QueryCalls ==
    { Call("u1", NoKey, <<Item("p1", 1)>>),
      Call("u2", NoKey, <<Item("p2", 1)>>) }

\* the create() calls of SpecScale: one token, two buyers, and no token
ScaleCalls ==
    { Call("u1", "k1", <<Item("p1", 1)>>),
      Call("u2", "k1", <<Item("p2", 1)>>),
      Call("u1", NoKey, <<Item("p1", 1)>>) }

----------------------------------------------------------------------------
(* Helpers *)

Range(s) == {s[i] : i \in DOMAIN s}

\* Map.set / Map.delete
MapSet(m, key, v) == [x \in DOMAIN m \cup {key} |-> IF x = key THEN v ELSE m[x]]

MapDelete(m, key) == [x \in DOMAIN m \ {key} |-> m[x]]

BadRequest_ConflictOnStock(msg) ==
    [class |-> IF msg = "Insufficient stock" THEN "Conflict" ELSE "BadRequest",
     message |-> msg]

\* throw new BadRequestException(msg)
BadRequest(msg) == [class |-> "BadRequest", message |-> msg]
Transient == [class |-> "Transient", message |-> "transaction rolled back"]
NoErr == [class |-> "", message |-> ""]

----------------------------------------------------------------------------
(* Pure parts of OrdersService.create *)

CacheKey_TokenOnly(userId, idempotencyKey) == idempotencyKey

\* const cacheKey = `${userId}-${idempotencyKey}`
CacheKey(userId, idempotencyKey) == userId \o "-" \o idempotencyKey

IsDuplicate_NoExpiry(cache, cacheKey, t) == cacheKey \in DOMAIN cache

\* if (recent && Date.now() - recent.timestamp < 5000)
IsDuplicate(cache, cacheKey, t) ==
    /\ cacheKey \in DOMAIN cache
    /\ t - cache[cacheKey].timestamp < WindowMs

FindByIds_IgnoreActive(prods, ids) == {p \in DOMAIN prods : p \in Range(ids)}

\* ProductsService.findByIds: rows with id in ids and isActive
FindByIds(prods, ids) ==
    {p \in DOMAIN prods : p \in Range(ids) /\ prods[p].isActive}

LineTotal_Sum(priceFils, qty) == priceFils + qty

\* const lineTotalFils = product.priceFils * item.qty
LineTotal(priceFils, qty) == priceFils * qty

AddToTotal_Overwrite(totalFils, lineTotalFils) == lineTotalFils

AddToTotal(totalFils, lineTotalFils) == totalFils + lineTotalFils

RECURSIVE PriceLoop_StrictStock(_, _, _, _, _)
PriceLoop_StrictStock(items, i, productMap, totalFils, orderItems) ==
    IF i > Len(items)
    THEN [ok |-> TRUE, err |-> NoErr, totalFils |-> totalFils,
          orderItems |-> orderItems]
    ELSE LET item == items[i] IN
         IF item.productId \notin DOMAIN productMap
         THEN [ok |-> FALSE, err |-> BadRequest("Product not found"),
               totalFils |-> 0, orderItems |-> <<>>]
         ELSE LET product == productMap[item.productId] IN
              IF item.qty <= 0
              THEN [ok |-> FALSE,
                    err |-> BadRequest("Quantity must be greater than 0"),
                    totalFils |-> 0, orderItems |-> <<>>]
              ELSE IF product.stock <= item.qty
              THEN [ok |-> FALSE, err |-> BadRequest("Insufficient stock"),
                    totalFils |-> 0, orderItems |-> <<>>]
              ELSE LET lineTotalFils == LineTotal(product.priceFils, item.qty) IN
                   PriceLoop_StrictStock(items, i + 1, productMap,
                             AddToTotal(totalFils, lineTotalFils),
                             Append(orderItems,
                                    [productId |-> item.productId,
                                     qty |-> item.qty,
                                     unitPriceFils |-> product.priceFils,
                                     lineTotalFils |-> lineTotalFils]))

\* the per-item loop of lines 72-98, over the snapshot productMap
RECURSIVE PriceLoop(_, _, _, _, _)
PriceLoop(items, i, productMap, totalFils, orderItems) ==
    IF i > Len(items)
    THEN [ok |-> TRUE, err |-> NoErr, totalFils |-> totalFils,
          orderItems |-> orderItems]
    ELSE LET item == items[i] IN
         IF item.productId \notin DOMAIN productMap
         THEN [ok |-> FALSE, err |-> BadRequest("Product not found"),
               totalFils |-> 0, orderItems |-> <<>>]
         ELSE LET product == productMap[item.productId] IN
              IF item.qty <= 0
              THEN [ok |-> FALSE,
                    err |-> BadRequest("Quantity must be greater than 0"),
                    totalFils |-> 0, orderItems |-> <<>>]
              ELSE IF product.stock < item.qty
              THEN [ok |-> FALSE, err |-> BadRequest("Insufficient stock"),
                    totalFils |-> 0, orderItems |-> <<>>]
              ELSE LET lineTotalFils == LineTotal(product.priceFils, item.qty) IN
                   PriceLoop(items, i + 1, productMap,
                             AddToTotal(totalFils, lineTotalFils),
                             Append(orderItems,
                                    [productId |-> item.productId,
                                     qty |-> item.qty,
                                     unitPriceFils |-> product.priceFils,
                                     lineTotalFils |-> lineTotalFils]))

ValidateAndPrice_NoLengthCheck(items, prods) ==
    LET productIds == [i \in DOMAIN items |-> items[i].productId]
        found == FindByIds(prods, productIds)
    IN  PriceLoop(items, 1, [p \in found |-> prods[p]], 0, <<>>)

\* lines 57-98: resolve the products, then validate and price the items
ValidateAndPrice(items, prods) ==
    LET productIds == [i \in DOMAIN items |-> items[i].productId]
        found == FindByIds(prods, productIds)
    IN  IF Cardinality(found) # Len(productIds)
        THEN [ok |-> FALSE, err |-> BadRequest("One or more products not found"),
              totalFils |-> 0, orderItems |-> <<>>]
        ELSE PriceLoop(items, 1, [p \in found |-> prods[p]], 0, <<>>)

Decrement_One(stock, qty) == stock - 1

\* stock: { decrement: item.qty }
Decrement(stock, qty) == stock - qty

\* the first n UPDATEs of the decrement loop, applied to the rows prods
RECURSIVE ApplyDecrements(_, _, _)
ApplyDecrements(prods, items, n) ==
    IF n = 0 THEN prods
    ELSE LET prev == ApplyDecrements(prods, items, n - 1)
             p == items[n].productId
         IN  [prev EXCEPT ![p].stock = Decrement(@, items[n].qty)]

\* prisma.order.findUnique({ where: { id } }): the row, or <<>> for null
FindUnique(id) ==
    IF \E o \in orders : o.id = id
    THEN <<CHOOSE o \in orders : o.id = id>> ELSE <<>>

\* include: { items: true }: the order with its plain line items
ReplayResponse(found) ==
    IF found = <<>> THEN <<>>
    ELSE [id |-> found[1].id, userId |-> found[1].userId,
          status |-> found[1].status, totalFils |-> found[1].totalFils,
          items |-> found[1].items]

\* include: { items: { include: { product: { select: ... } } } }: every
\* line item carries the id and price of its product row
FreshResponse(o, prods) ==
    [id |-> o.id, userId |-> o.userId, status |-> o.status,
     totalFils |-> o.totalFils,
     items |-> [i \in DOMAIN o.items |->
                  [productId |-> o.items[i].productId,
                   qty |-> o.items[i].qty,
                   unitPriceFils |-> o.items[i].unitPriceFils,
                   lineTotalFils |-> o.items[i].lineTotalFils,
                   product |-> [id |-> o.items[i].productId,
                                priceFils |-> prods[o.items[i].productId].priceFils]]]]

----------------------------------------------------------------------------
(* State of one create() call *)

IdleReq ==
    [pc |-> "idle", userId |-> "", key |-> NoKey, items |-> <<>>,
     orderItems |-> <<>>, totalFils |-> 0, newOrder |-> <<>>, k |-> 0,
     result |-> 0, response |-> <<>>, err |-> NoErr,
     fresh |-> FALSE, conc |-> {}, expect |-> 0, stale |-> FALSE]

InTx(r) == reqs[r].pc \in {"tx", "dec"}

\* rows locked by the UPDATEs the transaction of r has issued so far
LockedBy(r) ==
    IF reqs[r].pc = "dec"
    THEN {reqs[r].items[i].productId : i \in 1..reqs[r].k}
    ELSE {}

\* the next UPDATE of the transaction of r waits for a row another
\* transaction has locked
Waiting(r) ==
    /\ reqs[r].pc = "dec"
    /\ reqs[r].k < Len(reqs[r].items)
    /\ \E q \in Reqs \ {r} :
          reqs[r].items[reqs[r].k + 1].productId \in LockedBy(q)

Running(r) == reqs[r].pc \notin {"idle", "done", "failed"}

\* calls that missed the cache and have not yet recorded their order
InFlight(r) == reqs[r].pc \in {"lookup", "tx", "dec", "committed"}

NoResp ==
    [n |-> 0, op |-> "", caller |-> [id |-> "", role |-> ""], id |-> "",
     arg |-> "", before |-> "", result |-> [kind |-> ""]]

\* line 24: a new OrdersService object starts with an empty Map
NewCache == [recentOrders |-> <<>>, timers |-> {}]

Init ==
    /\ instance = 1
    /\ parked = [i \in Instances |-> NewCache]
    /\ products = InitProducts
    /\ orders = {}
    /\ recentOrders = <<>>
    /\ timers = {}
    /\ now = 0
    /\ reqs = [r \in Reqs |-> IdleReq]
    /\ lastRec = <<>>
    /\ resp = NoResp

----------------------------------------------------------------------------
(* OrdersService.create, one action per await point *)

\* lines 36-59: cache lookup, empty-list check, issue of the catalog query
Start(r, userId, key, items) ==
    /\ reqs[r].pc = "idle"
    /\ \A q \in Reqs : q < r => reqs[q].pc # "idle"
    /\ LET cacheKey == CacheKey(userId, key)
           base == [IdleReq EXCEPT !.userId = userId, !.key = key,
                                   !.items = items]
           ghost == [base EXCEPT
                       !.fresh = (key # NoKey /\ cacheKey \notin DOMAIN recentOrders),
                       !.conc = IF key = NoKey THEN {}
                                ELSE {q \in Reqs : /\ InFlight(q)
                                                   /\ reqs[q].userId = userId
                                                   /\ reqs[q].key = key
                                                   /\ reqs[q].fresh},
                       !.expect = IF /\ key # NoKey
                                     /\ cacheKey \in DOMAIN lastRec
                                     /\ now < lastRec[cacheKey].at + WindowMs
                                  THEN lastRec[cacheKey].orderId ELSE 0,
                       !.stale = /\ key # NoKey
                                 /\ cacheKey \in DOMAIN lastRec
                                 /\ now >= lastRec[cacheKey].at + WindowMs]
       IN  reqs' = [reqs EXCEPT ![r] =
              IF key # NoKey /\ IsDuplicate(recentOrders, cacheKey, now)
              THEN [ghost EXCEPT !.pc = "replay",
                                 !.result = recentOrders[cacheKey].orderId]
              ELSE IF Len(items) = 0
              THEN [ghost EXCEPT !.pc = "failed",
                      !.err = BadRequest("Order must contain at least one item")]
              ELSE [ghost EXCEPT !.pc = "lookup"]]
    /\ UNCHANGED <<products, orders, recentOrders, timers, now, lastRec, resp,
                 instance, parked>>

Replay_Refresh(r) ==
    /\ reqs[r].pc = "replay"
    /\ reqs' = [reqs EXCEPT ![r] =
          [@ EXCEPT !.pc = "done",
                    !.response = ReplayResponse(FindUnique(reqs[r].result))]]
    /\ recentOrders' =
          [recentOrders EXCEPT ![CacheKey(reqs[r].userId, reqs[r].key)].timestamp = now]
    /\ UNCHANGED <<products, orders, timers, now, lastRec, resp,
                 instance, parked>>

\* lines 43-47: the replay reads the existing order and returns it
Replay(r) ==
    /\ reqs[r].pc = "replay"
    /\ reqs' = [reqs EXCEPT ![r] =
          [@ EXCEPT !.pc = "done",
                    !.response = ReplayResponse(FindUnique(reqs[r].result))]]
    /\ UNCHANGED <<products, orders, recentOrders, timers, now, lastRec, resp,
                 instance, parked>>

Validate_Reserving(r) ==
    /\ reqs[r].pc = "lookup"
    /\ LET v == ValidateAndPrice(reqs[r].items, products) IN
       /\ reqs' = [reqs EXCEPT ![r] =
            IF v.ok
            THEN [@ EXCEPT !.pc = "tx", !.orderItems = v.orderItems,
                           !.totalFils = v.totalFils]
            ELSE [@ EXCEPT !.pc = "failed", !.err = v.err]]
       /\ products' = IF ~v.ok /\ v.err = BadRequest("Insufficient stock")
                      THEN ApplyDecrements(products, reqs[r].items,
                                           Len(reqs[r].items) - 1)
                      ELSE products
    /\ UNCHANGED <<orders, recentOrders, timers, now, lastRec, resp,
                 instance, parked>>

\* lines 59-98: the catalog query answers from the committed rows; the
\* validation and pricing run on that snapshot
Validate(r) ==
    /\ reqs[r].pc = "lookup"
    /\ LET v == ValidateAndPrice(reqs[r].items, products) IN
       reqs' = [reqs EXCEPT ![r] =
          IF v.ok
          THEN [@ EXCEPT !.pc = "tx", !.orderItems = v.orderItems,
                         !.totalFils = v.totalFils]
          ELSE [@ EXCEPT !.pc = "failed", !.err = v.err]]
    /\ UNCHANGED <<products, orders, recentOrders, timers, now, lastRec, resp,
                 instance, parked>>

TxCreate_Paid(r) ==
    /\ reqs[r].pc = "tx"
    /\ reqs' = [reqs EXCEPT ![r] =
          [@ EXCEPT !.pc = "dec", !.k = 0,
                    !.newOrder = <<[id |-> r, userId |-> reqs[r].userId,
                                    status |-> "PAID",
                                    totalFils |-> reqs[r].totalFils,
                                    createdAt |-> now,
                                    items |-> reqs[r].orderItems]>>,
                    !.response = FreshResponse(
                                   [id |-> r, userId |-> reqs[r].userId,
                                    status |-> "PAID",
                                    totalFils |-> reqs[r].totalFils,
                                    createdAt |-> now,
                                    items |-> reqs[r].orderItems], products)]]
    /\ UNCHANGED <<products, orders, recentOrders, timers, now, lastRec, resp,
                 instance, parked>>

\* lines 103-125: tx.order.create, buffered in the transaction
TxCreate(r) ==
    /\ reqs[r].pc = "tx"
    /\ reqs' = [reqs EXCEPT ![r] =
          [@ EXCEPT !.pc = "dec", !.k = 0,
                    !.newOrder = <<[id |-> r, userId |-> reqs[r].userId,
                                    status |-> "PENDING",
                                    totalFils |-> reqs[r].totalFils,
                                    createdAt |-> now,
                                    items |-> reqs[r].orderItems]>>,
                    !.response = FreshResponse(
                                   [id |-> r, userId |-> reqs[r].userId,
                                    status |-> "PENDING",
                                    totalFils |-> reqs[r].totalFils,
                                    createdAt |-> now,
                                    items |-> reqs[r].orderItems], products)]]
    /\ UNCHANGED <<products, orders, recentOrders, timers, now, lastRec, resp,
                 instance, parked>>

\* lines 128-137: one tx.product.update; waits for the row lock
TxDecrement(r) ==
    /\ reqs[r].pc = "dec"
    /\ reqs[r].k < Len(reqs[r].items)
    /\ LET p == reqs[r].items[reqs[r].k + 1].productId IN
       \A q \in Reqs \ {r} : p \notin LockedBy(q)
    /\ reqs' = [reqs EXCEPT ![r].k = @ + 1]
    /\ UNCHANGED <<products, orders, recentOrders, timers, now, lastRec, resp,
                 instance, parked>>

\* line 140: the transaction commits its order, line items and decrements
TxCommit(r) ==
    /\ reqs[r].pc = "dec"
    /\ reqs[r].k = Len(reqs[r].items)
    /\ orders' = orders \cup Range(reqs[r].newOrder)
    /\ products' = ApplyDecrements(products, reqs[r].items, reqs[r].k)
    /\ reqs' = [reqs EXCEPT ![r].pc = "committed"]
    /\ UNCHANGED <<recentOrders, timers, now, lastRec, resp,
                 instance, parked>>

TxAbort_NoRollback(r) ==
    /\ InTx(r)
    /\ reqs' = [reqs EXCEPT ![r] = [@ EXCEPT !.pc = "failed", !.err = Transient,
                                             !.newOrder = <<>>,
                                             !.response = <<>>]]
    /\ orders' = orders \cup Range(reqs[r].newOrder)
    /\ products' = ApplyDecrements(products, reqs[r].items, reqs[r].k)
    /\ UNCHANGED <<recentOrders, timers, now, lastRec, resp,
                 instance, parked>>

TxAbort_Records(r) ==
    /\ InTx(r)
    /\ reqs' = [reqs EXCEPT ![r] = [@ EXCEPT !.pc = "failed", !.err = Transient,
                                             !.newOrder = <<>>,
                                             !.response = <<>>]]
    /\ recentOrders' = IF reqs[r].key = NoKey THEN recentOrders
                       ELSE MapSet(recentOrders,
                                   CacheKey(reqs[r].userId, reqs[r].key),
                                   [timestamp |-> now, orderId |-> r])
    /\ UNCHANGED <<products, orders, timers, now, lastRec, resp,
                 instance, parked>>

TxAbort_NoVictim(r) ==
    /\ InTx(r)
    /\ ~Waiting(r)
    /\ reqs' = [reqs EXCEPT ![r] = [@ EXCEPT !.pc = "failed", !.err = Transient,
                                             !.newOrder = <<>>,
                                             !.response = <<>>]]
    /\ UNCHANGED <<products, orders, recentOrders, timers, now, lastRec, resp,
                 instance, parked>>

\* the transaction fails (timeout, deadlock victim, store error, caller
\* abort): everything it buffered is rolled back and create() throws
TxAbort(r) ==
    /\ InTx(r)
    /\ reqs' = [reqs EXCEPT ![r] = [@ EXCEPT !.pc = "failed", !.err = Transient,
                                             !.newOrder = <<>>,
                                             !.response = <<>>]]
    /\ UNCHANGED <<products, orders, recentOrders, timers, now, lastRec, resp,
                 instance, parked>>

Finish_AlwaysRecord(r) ==
    /\ reqs[r].pc = "committed"
    /\ reqs' = [reqs EXCEPT ![r] = [@ EXCEPT !.pc = "done", !.result = r]]
    /\ LET cacheKey == CacheKey(reqs[r].userId, reqs[r].key) IN
       /\ recentOrders' = MapSet(recentOrders, cacheKey,
                                 [timestamp |-> now, orderId |-> r])
       /\ timers' = timers \cup {[cacheKey |-> cacheKey,
                                   fireAt |-> now + EvictMs, owner |-> r]}
       /\ lastRec' = MapSet(lastRec, cacheKey, [orderId |-> r, at |-> now])
    /\ UNCHANGED <<products, orders, now, resp,
                 instance, parked>>

Finish_NoTimer(r) ==
    /\ reqs[r].pc = "committed"
    /\ reqs' = [reqs EXCEPT ![r] = [@ EXCEPT !.pc = "done", !.result = r]]
    /\ IF reqs[r].key # NoKey
       THEN LET cacheKey == CacheKey(reqs[r].userId, reqs[r].key) IN
            /\ recentOrders' = MapSet(recentOrders, cacheKey,
                                      [timestamp |-> now, orderId |-> r])
            /\ lastRec' = MapSet(lastRec, cacheKey, [orderId |-> r, at |-> now])
            /\ UNCHANGED timers
       ELSE UNCHANGED <<recentOrders, timers, lastRec>>
    /\ UNCHANGED <<products, orders, now, resp,
                 instance, parked>>

\* lines 142-157: record the order in the cache, arm the eviction timer
Finish(r) ==
    /\ reqs[r].pc = "committed"
    /\ reqs' = [reqs EXCEPT ![r] = [@ EXCEPT !.pc = "done", !.result = r]]
    /\ IF reqs[r].key # NoKey
       THEN LET cacheKey == CacheKey(reqs[r].userId, reqs[r].key) IN
            /\ recentOrders' = MapSet(recentOrders, cacheKey,
                                      [timestamp |-> now, orderId |-> r])
            /\ timers' = timers \cup {[cacheKey |-> cacheKey,
                                        fireAt |-> now + EvictMs, owner |-> r]}
            /\ lastRec' = MapSet(lastRec, cacheKey, [orderId |-> r, at |-> now])
       ELSE UNCHANGED <<recentOrders, timers, lastRec>>
    /\ UNCHANGED <<products, orders, now, resp,
                 instance, parked>>

\* lines 151-153: the setTimeout callback armed by call r
TimerFire(r) ==
    /\ \E t \in timers :
          /\ t.owner = r
          /\ now >= t.fireAt
          /\ recentOrders' = MapDelete(recentOrders, t.cacheKey)
          /\ timers' = timers \ {t}
    /\ UNCHANGED <<products, orders, now, reqs, lastRec, resp,
                 instance, parked>>

\* the clock
Tick ==
    /\ now + TickMs <= MaxTicks * TickMs
    /\ now' = now + TickMs
    /\ UNCHANGED <<products, orders, recentOrders, timers, reqs, lastRec, resp,
                 instance, parked>>

StartStock ==
    \E r \in StockReqs, c \in StockCalls : Start(r, c.userId, c.key, c.items)

\* in SpecIdem the calls follow one another while the clock runs
StartIdem ==
    /\ \A q \in Reqs : ~Running(q)
    /\ \E r \in IdemReqs, c \in IdemCalls : Start(r, c.userId, c.key, c.items)

Steps ==
    \/ \E r \in Reqs : Validate(r)
    \/ \E r \in Reqs : TxCreate(r)
    \/ \E r \in Reqs : TxDecrement(r)
    \/ \E r \in Reqs : TxCommit(r)
    \/ \E r \in Reqs : TxAbort(r)
    \/ \E r \in Reqs : Finish(r)

Next ==
    \/ StartStock
    \/ \E r \in Reqs : Replay(r)
    \/ Steps

NextIdem ==
    \/ StartIdem
    \/ \E r \in Reqs : Replay(r)
    \/ Steps
    \/ \E r \in Reqs : TimerFire(r)
    \/ Tick

Spec == Init /\ [][Next]_vars

\* the calls of SpecSeq: those of Spec without a key, one after the other
SeqCalls == {c \in StockCalls : c.key = NoKey}

StartSeq ==
    /\ \A q \in Reqs : ~Running(q)
    /\ \E r \in StockReqs, c \in SeqCalls : Start(r, c.userId, c.key, c.items)

NextSeq ==
    \/ StartSeq
    \/ Steps

SpecSeq == Init /\ [][NextSeq]_vars

StartLive ==
    \E r \in LiveReqs, c \in LiveCalls : Start(r, c.userId, c.key, c.items)

NextLive ==
    \/ StartLive
    \/ \E r \in Reqs : Replay(r)
    \/ Steps

\* every continuation of a call is run by the event loop; a transaction that
\* waits for a row lock does not wait for ever: the store ends a lock cycle
\* by failing one of its transactions, and the transaction has a timeout
Fairness ==
    \A r \in Reqs :
        /\ WF_vars(Replay(r))
        /\ WF_vars(Validate(r))
        /\ WF_vars(TxCreate(r))
        /\ WF_vars(TxDecrement(r))
        /\ WF_vars(TxCommit(r))
        /\ WF_vars(Finish(r))
        /\ WF_vars(Waiting(r) /\ TxAbort(r))

SpecLive == Init /\ [][NextLive]_vars /\ Fairness

\* in SpecEvict the calls follow one another while the clock runs
StartEvict ==
    /\ \A q \in Reqs : ~Running(q)
    /\ \E r \in LiveReqs, c \in EvictCalls : Start(r, c.userId, c.key, c.items)

\* the clock of SpecEvict: it runs on while an armed timer is not yet due
TickEvict ==
    /\ \/ now + TickMs <= MaxTicks * TickMs
       \/ \E t \in timers : now < t.fireAt
    /\ now' = now + TickMs
    /\ UNCHANGED <<products, orders, recentOrders, timers, reqs, lastRec, resp,
                 instance, parked>>

NextEvict ==
    \/ StartEvict
    \/ \E r \in Reqs : Replay(r)
    \/ Steps
    \/ \E r \in Reqs : TimerFire(r)
    \/ TickEvict

\* time passes, and the event loop runs every timer callback that is due
FairnessEvict ==
    /\ Fairness
    /\ WF_vars(TickEvict)
    /\ \A r \in Reqs : WF_vars(TimerFire(r))

SpecEvict == Init /\ [][NextEvict]_vars /\ FairnessEvict

SpecIdem == Init /\ [][NextIdem]_vars

\* in SpecQuery the calls follow one another while the clock runs
StartQuery ==
    /\ \A q \in Reqs : ~Running(q)
    /\ \E r \in QueryReqs, c \in QueryCalls : Start(r, c.userId, c.key, c.items)

\* the clock of SpecQuery: time passes between the calls
TickQuery ==
    /\ \A q \in Reqs : ~Running(q)
    /\ Tick

NextQuery ==
    \/ StartQuery
    \/ Steps
    \/ TickQuery

SpecQuery == Init /\ [][NextQuery]_vars

\* README "Scaling": several instances of the service run behind a load
\* balancer over the one database.  Every instance is a process with its own
\* OrdersService object, hence its own recentOrders Map and its own timers
\* (line 24).  The balancer hands the next call to instance i: from then on
\* recentOrders and timers are those of i, and those of the instance that
\* handled the call before are set aside.
Route(i) ==
    /\ \A q \in Reqs : ~Running(q)
    /\ i # instance
    /\ instance' = i
    /\ recentOrders' = parked[i].recentOrders
    /\ timers' = parked[i].timers
    /\ parked' = [parked EXCEPT
                    ![instance] = [recentOrders |-> recentOrders,
                                   timers |-> timers],
                    ![i] = NewCache]
    /\ UNCHANGED <<products, orders, now, reqs, lastRec, resp>>

\* in SpecScale the calls follow one another at one instant of the clock
StartScale ==
    /\ \A q \in Reqs : ~Running(q)
    /\ \E r \in ScaleReqs, c \in ScaleCalls : Start(r, c.userId, c.key, c.items)

NextScale ==
    \/ StartScale
    \/ \E i \in Instances : Route(i)
    \/ \E r \in Reqs : Replay(r)
    \/ Steps

SpecScale == Init /\ [][NextScale]_vars

----------------------------------------------------------------------------
(* Order Query Layer: reads of the committed rows *)

Customer(id) == [id |-> id, role |-> "CUSTOMER"]
Admin == [id |-> "adm", role |-> "ADMIN"]
QueryUsers == {Customer(b) : b \in Buyers} \cup {Admin}
QueryPages == {1, 2, 3}
QueryLimits == {1, 2, MaxLimit}

NotFound(id) ==
    [kind |-> "NotFound", message |-> <<"Order with ID ", id, " not found">>]

\* where = ADMIN ? { id } : { id, userId: user.id }
FindOneWhere(id, user, o) ==
    IF user.role = "ADMIN" THEN o.id = id
    ELSE o.id = id /\ o.userId = user.id

FindOne_Forbidden(id, user) ==
    LET rows == {o \in orders : o.id = id} IN
    IF rows = {} THEN NotFound(id)
    ELSE LET o == CHOOSE x \in rows : TRUE IN
         IF user.role # "ADMIN" /\ o.userId # user.id
         THEN [kind |-> "Forbidden", message |-> <<"Order with ID ", id, " forbidden">>]
         ELSE [kind |-> "Order", order |-> o]

\* OrdersService.findOne
FindOne(id, user) ==
    LET rows == {o \in orders : FindOneWhere(id, user, o)} IN
    IF rows = {} THEN NotFound(id)
    ELSE [kind |-> "Order", order |-> CHOOSE o \in rows : TRUE]

FindAllWhere_All(user, o) == TRUE

\* where = ADMIN ? {} : { userId: user.id }
FindAllWhere(user, o) ==
    IF user.role = "ADMIN" THEN TRUE ELSE o.userId = user.id

\* orderBy createdAt desc: every order of the rows S the store may return
\* (rows created in the same millisecond come in either order)
SortedDesc(S) ==
    {s \in [1..Cardinality(S) -> S] :
        /\ \A i, j \in DOMAIN s : i # j => s[i] # s[j]
        /\ \A i, j \in DOMAIN s : i < j => s[i].createdAt >= s[j].createdAt}

\* skip / take
Slice(s, skip, take) ==
    [i \in 1..(IF Len(s) - skip < 0 THEN 0
               ELSE IF Len(s) - skip < take THEN Len(s) - skip ELSE take)
       |-> s[skip + i]]

\* Math.ceil(a / b) for a >= 0 and b >= 1
Ceil(a, b) == IF a % b = 0 THEN a \div b ELSE a \div b + 1

Meta_Floor(page, limit, total) ==
    [page |-> page, limit |-> limit, total |-> total,
     totalPages |-> total \div limit,
     hasNext |-> page < total \div limit,
     hasPrev |-> page > 1]

\* lines 196-203: the meta block of the page
Meta(page, limit, total) ==
    [page |-> page, limit |-> limit, total |-> total,
     totalPages |-> Ceil(total, limit),
     hasNext |-> page < Ceil(total, limit),
     hasPrev |-> page > 1]

\* OrdersService.findAll: the possible pages (data and meta)
FindAll(page, limit, user) ==
    LET visible == {o \in orders : FindAllWhere(user, o)}
        skip == (page - 1) * limit
    IN  {[data |-> Slice(s, skip, limit),
          meta |-> Meta(page, limit, Cardinality(visible))] :
            s \in SortedDesc(visible)}

----------------------------------------------------------------------------
(* PATCH /orders/:id/status and ProductsService.update *)

Statuses == {"PENDING", "PAID", "CANCELLED", "FULFILLED"}
PatchCallers == {Customer("u1"), Admin}
\* the ids of the orders SpecAdmin can place, and one id of no order
PatchIds == {0} \cup AdminReqs

\* the catalog updates of SpecAdmin, on a product row and on an unknown id
ProductUpdates == {[priceFils |-> 4], [stock |-> 3]}
UpdatedProductIds == {"p1", "pX"}

\* @UseGuards(RolesGuard) with @Roles(...): the caller's role is one of them
RolesGuard(user, roles) == user.role \in roles

Forbidden == [kind |-> "Forbidden", message |-> <<"Forbidden resource">>]

\* the status of the order id among the rows S, "" when there is none
StatusIn(S, id) ==
    IF \E o \in S : o.id = id
    THEN (CHOOSE o \in S : o.id = id).status ELSE ""

StatusOf(id) == StatusIn(orders, id)

UpdateStatus_Guarded(id, status) ==
    LET found == FindOne(id, Admin) IN
    IF found.kind = "NotFound" THEN [result |-> found, orders |-> orders]
    ELSE IF found.order.status \in {"CANCELLED", "FULFILLED"}
    THEN [result |-> [kind |-> "BadRequest", message |-> <<"final status">>],
          orders |-> orders]
    ELSE LET updated == [found.order EXCEPT !.status = status] IN
         [result |-> [kind |-> "Order", order |-> updated],
          orders |-> (orders \ {found.order}) \cup {updated}]

\* OrdersService.updateStatus: the response and the order rows afterwards
UpdateStatus(id, status) ==
    LET found == FindOne(id, Admin) IN
    IF found.kind = "NotFound" THEN [result |-> found, orders |-> orders]
    ELSE LET updated == [found.order EXCEPT !.status = status] IN
         [result |-> [kind |-> "Order", order |-> updated],
          orders |-> (orders \ {found.order}) \cup {updated}]

PatchStatus_NoGuard(caller, id, status) ==
    /\ resp.n < MaxAdminOps
    /\ LET u == UpdateStatus(id, status) IN
       /\ orders' = u.orders
       /\ resp' = [n |-> resp.n + 1, op |-> "updateStatus", caller |-> caller,
                   id |-> id, arg |-> status, before |-> StatusOf(id),
                   result |-> u.result]
    /\ UNCHANGED <<products, recentOrders, timers, now, reqs, lastRec,
                 instance, parked>>

PatchStatus_Restock(caller, id, status) ==
    /\ resp.n < MaxAdminOps
    /\ IF RolesGuard(caller, {"ADMIN"})
       THEN LET u == UpdateStatus(id, status) IN
            /\ orders' = u.orders
            /\ products' = IF u.result.kind = "Order" /\ status = "CANCELLED"
                           THEN [p \in DOMAIN products |->
                                   [products[p] EXCEPT !.stock =
                                       @ + Cardinality(
                                             {i \in DOMAIN u.result.order.items :
                                                u.result.order.items[i].productId = p})]]
                           ELSE products
            /\ resp' = [n |-> resp.n + 1, op |-> "updateStatus",
                        caller |-> caller, id |-> id, arg |-> status,
                        before |-> StatusOf(id), result |-> u.result]
       ELSE /\ UNCHANGED <<orders, products>>
            /\ resp' = [n |-> resp.n + 1, op |-> "updateStatus",
                        caller |-> caller, id |-> id, arg |-> status,
                        before |-> StatusOf(id), result |-> Forbidden]
    /\ UNCHANGED <<recentOrders, timers, now, reqs, lastRec,
                 instance, parked>>

\* OrdersController.updateStatus behind RolesGuard and @Roles(ADMIN)
PatchStatus(caller, id, status) ==
    /\ resp.n < MaxAdminOps
    /\ IF RolesGuard(caller, {"ADMIN"})
       THEN LET u == UpdateStatus(id, status) IN
            /\ orders' = u.orders
            /\ resp' = [n |-> resp.n + 1, op |-> "updateStatus",
                        caller |-> caller, id |-> id, arg |-> status,
                        before |-> StatusOf(id), result |-> u.result]
       ELSE /\ orders' = orders
            /\ resp' = [n |-> resp.n + 1, op |-> "updateStatus",
                        caller |-> caller, id |-> id, arg |-> status,
                        before |-> StatusOf(id), result |-> Forbidden]
    /\ UNCHANGED <<products, recentOrders, timers, now, reqs, lastRec,
                 instance, parked>>

\* data: updateProductDto
MergeDto(row, dto) ==
    [f \in DOMAIN row |-> IF f \in DOMAIN dto THEN dto[f] ELSE row[f]]

ProductUpdate_Reprice(id, dto) ==
    /\ resp.n < MaxAdminOps
    /\ \A q \in Reqs : id \notin LockedBy(q)
    /\ IF id \notin DOMAIN products
       THEN /\ UNCHANGED <<products, orders>>
            /\ resp' = [n |-> resp.n + 1, op |-> "productUpdate",
                        caller |-> Admin, id |-> id, arg |-> dto, before |-> "",
                        result |-> [kind |-> "NotFound",
                                    message |-> <<"Product with ID ", id, " not found">>]]
       ELSE LET row == MergeDto(products[id], dto) IN
            /\ products' = [products EXCEPT ![id] = row]
            /\ orders' = {[o EXCEPT !.items = [i \in DOMAIN o.items |->
                              IF o.items[i].productId = id
                              THEN [o.items[i] EXCEPT
                                       !.unitPriceFils = row.priceFils]
                              ELSE o.items[i]]] : o \in orders}
            /\ resp' = [n |-> resp.n + 1, op |-> "productUpdate",
                        caller |-> Admin, id |-> id, arg |-> dto, before |-> "",
                        result |-> [kind |-> "Product", product |-> row]]
    /\ UNCHANGED <<recentOrders, timers, now, reqs, lastRec,
                 instance, parked>>

\* ProductsService.update: findOne, then the UPDATE of the product row
\* (which waits for the row lock of a running transaction)
ProductUpdate(id, dto) ==
    /\ resp.n < MaxAdminOps
    /\ \A q \in Reqs : id \notin LockedBy(q)
    /\ IF id \notin DOMAIN products
       THEN /\ UNCHANGED products
            /\ resp' = [n |-> resp.n + 1, op |-> "productUpdate",
                        caller |-> Admin, id |-> id, arg |-> dto, before |-> "",
                        result |-> [kind |-> "NotFound",
                                    message |-> <<"Product with ID ", id, " not found">>]]
       ELSE LET row == MergeDto(products[id], dto) IN
            /\ products' = [products EXCEPT ![id] = row]
            /\ resp' = [n |-> resp.n + 1, op |-> "productUpdate",
                        caller |-> Admin, id |-> id, arg |-> dto, before |-> "",
                        result |-> [kind |-> "Product", product |-> row]]
    /\ UNCHANGED <<orders, recentOrders, timers, now, reqs, lastRec,
                 instance, parked>>

\* the orders of SpecAdmin are placed one call after the other
StartAdmin ==
    /\ \A q \in Reqs : ~Running(q)
    /\ \E r \in AdminReqs, c \in AdminCalls : Start(r, c.userId, c.key, c.items)

NextAdmin ==
    \/ StartAdmin
    \/ \E r \in Reqs : Replay(r)
    \/ Steps
    \/ \E caller \in PatchCallers, id \in PatchIds :
          \E status \in (IF caller.role = "ADMIN" THEN Statuses ELSE {"PAID"}) :
             PatchStatus(caller, id, status)
    \/ \E id \in UpdatedProductIds, dto \in ProductUpdates : ProductUpdate(id, dto)

SpecAdmin == Init /\ [][NextAdmin]_vars

----------------------------------------------------------------------------
(* Properties *)

Min(a, b) == IF a < b THEN a ELSE b

Started == {r \in Reqs : reqs[r].pc # "idle"}

\* the order created by call r is in the store
Committed(r) == \E o \in orders : o.id = r

InsufficientStock == BadRequest("Insufficient stock")

RECURSIVE QtyInItems(_, _)
QtyInItems(items, p) ==
    IF items = <<>> THEN 0
    ELSE (IF Head(items).productId = p THEN Head(items).qty ELSE 0)
         + QtyInItems(Tail(items), p)

RECURSIVE QtyOrdered(_, _)
QtyOrdered(S, p) ==
    IF S = {} THEN 0
    ELSE LET o == CHOOSE x \in S : TRUE IN
         QtyInItems(o.items, p) + QtyOrdered(S \ {o}, p)

RECURSIVE QtyRequested(_, _)
QtyRequested(R, p) ==
    IF R = {} THEN 0
    ELSE LET r == CHOOSE x \in R : TRUE IN
         QtyInItems(reqs[r].items, p) + QtyRequested(R \ {r}, p)

RECURSIVE SumLineTotals(_)
SumLineTotals(items) ==
    IF items = <<>> THEN 0
    ELSE Head(items).lineTotalFils + SumLineTotals(Tail(items))

\* C1: in every reachable state every product's stored stock is >= 0
C1_StockNonNegative ==
    \A p \in ProductIds : products[p].stock >= 0

\* C2: when N placements by distinct un-tokened callers, each for quantity 1
\* of the same product with stock S, have all finished, exactly min(N, S) of
\* them succeeded and the other N - min(N, S) were rejected for insufficient
\* stock
C2_ExactlyMinSucceed ==
    LET S == InitProducts["p2"].stock
        N == Cardinality(Started)
        ok == {r \in Started : reqs[r].pc = "done"}
        rejected == {r \in Started : /\ reqs[r].pc = "failed"
                                     /\ reqs[r].err = InsufficientStock}
    IN  (/\ N >= 1
         /\ \A r \in Started :
               /\ reqs[r].pc \in {"done", "failed"}
               /\ reqs[r].err # Transient
               /\ reqs[r].items = <<Item("p2", 1)>>
               /\ reqs[r].key = NoKey
         /\ \A r1, r2 \in Started : r1 # r2 => reqs[r1].userId # reqs[r2].userId)
        => /\ Cardinality(ok) = Min(N, S)
           /\ Cardinality(rejected) = N - Min(N, S)

\* C3: of two placements with the same buyer id and the same token that both
\* looked the cache up while it had no entry for them and before the other
\* had recorded its result, at most one commits an order
C3_AtMostOneCommit ==
    \A r1, r2 \in Reqs :
        (r1 \in reqs[r2].conc /\ reqs[r2].fresh)
            => ~(Committed(r1) /\ Committed(r2))

\* C4: a placement by buyer B with token T that starts less than 5 s after
\* the last order O recorded for (B, T) returns O and creates no order
C4_ReplayWithinWindow ==
    \A r \in Reqs :
        reqs[r].expect # 0
            => /\ reqs[r].pc \in {"replay", "done"}
               /\ reqs[r].result = reqs[r].expect
               /\ ~Committed(r)

\* C5: for every product, initial stock minus current stock equals the sum of
\* the quantities of that product over the line items of all committed orders
C5_StockConservation ==
    \A p \in ProductIds :
        InitProducts[p].stock - products[p].stock = QtyOrdered(orders, p)

C5_Witness ==
    \E o1, o2 \in orders :
        /\ o1.id # o2.id
        /\ QtyInItems(o1.items, "p1") = 1
        /\ QtyInItems(o2.items, "p1") = 1
        /\ Len(o2.items) = 2
        /\ products["p1"].stock = InitProducts["p1"].stock - 2

\* C6: the commit is all-or-nothing: the order of a call is in the store
\* with all its line items and all its stock decrements, or none of them is;
\* a transaction that fails after the order insert leaves orders and stock
\* as they were
C6_AllOrNothing ==
    /\ [](/\ \A r \in Started :
               /\ reqs[r].pc = "failed" => ~Committed(r)
               /\ InTx(r) => ~Committed(r)
               /\ \A o \in orders : o.id = r =>
                     /\ Len(o.items) = Len(reqs[r].items)
                     /\ \A i \in DOMAIN o.items :
                           /\ o.items[i].productId = reqs[r].items[i].productId
                           /\ o.items[i].qty = reqs[r].items[i].qty
          /\ \A p \in ProductIds :
               products[p].stock = InitProducts[p].stock
                   - QtyRequested({r \in Started : Committed(r)}, p))
    /\ [][\A r \in Reqs :
            (InTx(r) /\ reqs'[r].pc = "failed")
                => (products' = products /\ orders' = orders)]_vars

C6_Witness ==
    \E r, q \in Reqs :
        /\ reqs[r].pc = "failed"
        /\ reqs[r].err = Transient
        /\ Len(reqs[r].items) = 2
        /\ reqs[r].k = 1
        /\ Committed(q)

\* C7: every committed order's total equals the sum of the line totals of its
\* line items
C7_TotalIsSum ==
    \A o \in orders : o.totalFils = SumLineTotals(o.items)

C7_Witness ==
    \E o \in orders : Len(o.items) = 2 /\ o.totalFils = 8

\* C8: a placement rejected at validation leaves every product's stock, the
\* orders with their line items and the idempotency cache unchanged
C8_RejectionHasNoEffect ==
    [][\A r \in Reqs :
          (reqs[r].pc \in {"idle", "lookup"} /\ reqs'[r].pc = "failed")
              => UNCHANGED <<products, orders, recentOrders, timers>>]_vars

C8_Witness ==
    \E r \in Reqs :
        /\ reqs[r].pc = "failed"
        /\ reqs[r].items = <<Item("p1", 1), Item("p2", 2)>>
        /\ reqs[r].err = InsufficientStock
        /\ orders # {}
        /\ DOMAIN recentOrders # {}

\* C9: for a caller that is not ADMIN, findAll and findOne never return an
\* order of another buyer, for any order id, page and limit
C9_NoForeignOrder ==
    \A user \in QueryUsers : user.role # "ADMIN" =>
        /\ \A id \in OrderIds :
              FindOne(id, user).kind = "Order"
                  => FindOne(id, user).order.userId = user.id
        /\ \A page \in QueryPages, limit \in QueryLimits :
              \A res \in FindAll(page, limit, user) :
                  \A i \in DOMAIN res.data : res.data[i].userId = user.id

C9_Witness ==
    \E o1, o2 \in orders :
        /\ o1.userId = "u1"
        /\ o2.userId = "u2"
        /\ FindOne(o1.id, Customer("u1")).kind = "Order"
        /\ FindOne(o2.id, Customer("u1")).kind = "NotFound"
        /\ \E res \in FindAll(1, 2, Customer("u1")) : Len(res.data) = 1
        /\ \E res \in FindAll(1, 2, Admin) : Len(res.data) = 2

\* C10: for a caller that is not ADMIN, findOne on the id of another buyer's
\* order fails exactly as findOne on an id that does not exist: NotFound
\* with the same message text around the requested id
C10_ForeignLooksMissing ==
    \A user \in QueryUsers, id1, id2 \in OrderIds :
        (/\ user.role # "ADMIN"
         /\ \E o \in orders : o.id = id1 /\ o.userId # user.id
         /\ ~Committed(id2))
            => LET a == FindOne(id1, user)
                   b == FindOne(id2, user)
               IN  /\ a.kind = "NotFound"
                   /\ b.kind = a.kind
                   /\ a.message[2] = id1
                   /\ b.message[2] = id2
                   /\ a.message[1] = b.message[1]
                   /\ a.message[3] = b.message[3]

C10_Witness ==
    \E id1, id2 \in OrderIds :
        /\ \E o \in orders : o.id = id1 /\ o.userId = "u2"
        /\ ~Committed(id2)
        /\ FindOne(id1, Customer("u1")) = NotFound(id1)
        /\ FindOne(id2, Customer("u1")) = NotFound(id2)

\* C11: a placement with a token that starts 5 s or more after the last
\* record for its buyer and token is never answered from the cache: it goes
\* through validation, and when it succeeds it returns an order of its own,
\* committed with its own stock decrement, also while the old entry is still
\* in the cache
C11_ExpiredIsNewPlacement ==
    /\ [](\A r \in Reqs : reqs[r].stale =>
            /\ reqs[r].pc # "replay"
            /\ reqs[r].pc = "done" =>
                  /\ reqs[r].result = r
                  /\ Committed(r)
                  /\ reqs[r].orderItems # <<>>)
    /\ [][\A r \in Reqs :
            (reqs[r].stale /\ reqs[r].pc = "dec" /\ reqs'[r].pc = "committed")
                => /\ \A o \in orders : o.id # r
                   /\ \A i \in DOMAIN reqs[r].items :
                        products'[reqs[r].items[i].productId].stock
                            < products[reqs[r].items[i].productId].stock]_vars

C11_Witness ==
    \E r \in Reqs :
        /\ reqs[r].stale
        /\ ~reqs[r].fresh
        /\ reqs[r].pc = "done"
        /\ reqs[r].result = r
        /\ Cardinality(orders) = 2
        /\ products["p1"].stock = InitProducts["p1"].stock - 2

\* C12: an idempotency record leaves the cache no earlier than 10 s after
\* the instant it was written
C12_RetainedTenSeconds ==
    [][\A key \in DOMAIN recentOrders :
          key \notin DOMAIN recentOrders'
              => now >= recentOrders[key].timestamp + EvictMs]_vars

\* C13: a placement without a token is never answered with an earlier order
\* and no step of it changes the idempotency cache or its timers: when it
\* succeeds it has committed an order of its own, also right after an
\* identical placement of the same buyer
C13_NoTokenNoCache ==
    /\ [](\A r \in Reqs : (reqs[r].pc # "idle" /\ reqs[r].key = NoKey) =>
            /\ reqs[r].pc # "replay"
            /\ reqs[r].pc = "done" => (reqs[r].result = r /\ Committed(r)))
    /\ [][\A r \in Reqs :
            (reqs'[r].key = NoKey /\ reqs'[r] # reqs[r])
                => UNCHANGED <<recentOrders, timers>>]_vars

C13_Witness ==
    \E q, r \in Reqs :
        /\ q < r
        /\ reqs[q].key = NoKey /\ reqs[r].key = NoKey
        /\ reqs[q].userId = reqs[r].userId
        /\ reqs[q].items = reqs[r].items
        /\ reqs[q].pc = "done" /\ reqs[r].pc = "done"
        /\ reqs[q].result = q /\ reqs[r].result = r
        /\ Committed(q) /\ Committed(r)

\* some item names a product that is unknown or inactive
Unresolvable(items) ==
    \E i \in DOMAIN items :
        \/ items[i].productId \notin DOMAIN products
        \/ ~products[items[i].productId].isActive

\* C14: a placement with an item whose product is unknown or inactive is
\* rejected as a whole: it never opens a transaction, no order is created
\* for it and its steps change no stock
C14_UnresolvableRejectsAll ==
    /\ [](\A r \in Reqs : Unresolvable(reqs[r].items) =>
            /\ reqs[r].pc \in {"idle", "lookup", "failed"}
            /\ ~Committed(r))
    /\ [][\A r \in Reqs :
            (Unresolvable(reqs'[r].items) /\ reqs'[r] # reqs[r])
                => UNCHANGED <<products, orders>>]_vars

C14_Witness ==
    \E q, r \in Reqs :
        /\ reqs[q].pc = "failed"
        /\ reqs[q].items = <<Item("p1", 1), Item("p3", 1)>>
        /\ reqs[q].err.message = "One or more products not found"
        /\ reqs[r].pc = "failed"
        /\ reqs[r].items = <<Item("p1", 1), Item("pX", 1)>>
        /\ orders = {}
        /\ products = InitProducts

ErrKind(err) ==
    CASE err.message \in {"One or more products not found", "Product not found"}
            -> "notFound"
      [] err.message = "Quantity must be greater than 0" -> "quantity"
      [] err.message = "Insufficient stock" -> "stock"
      [] OTHER -> "other"

\* the check that fails at the first offending item, the per-item checks
\* taken in the order product not found, quantity <= 0, insufficient stock
RECURSIVE FirstOffendingKind(_, _, _)
FirstOffendingKind(items, i, prods) ==
    IF i > Len(items) THEN "none"
    ELSE IF \/ items[i].productId \notin DOMAIN prods
            \/ ~prods[items[i].productId].isActive
    THEN "notFound"
    ELSE IF items[i].qty <= 0 THEN "quantity"
    ELSE IF prods[items[i].productId].stock < items[i].qty THEN "stock"
    ELSE FirstOffendingKind(items, i + 1, prods)

\* C15: a placement with invalid items is rejected with the error of its
\* first offending item in the caller-supplied order
C15_FirstOffendingItem ==
    [][\A r \in Reqs :
          (/\ reqs[r].pc = "lookup"
           /\ reqs'[r].pc = "failed"
           /\ FirstOffendingKind(reqs[r].items, 1, products) # "none")
              => ErrKind(reqs'[r].err)
                     = FirstOffendingKind(reqs[r].items, 1, products)]_vars

RejectionMessages ==
    {"Order must contain at least one item", "One or more products not found",
     "Product not found", "Quantity must be greater than 0"}

\* C16 as stated: the error class of a rejection for insufficient stock
\* differs from the class of a rejection for an empty list, a non-positive
\* quantity or an unknown product
C16_ConflictClassDistinct ==
    \A r, q \in Reqs :
        (/\ reqs[r].pc = "failed" /\ reqs[q].pc = "failed"
         /\ reqs[r].err.message = "Insufficient stock"
         /\ reqs[q].err.message \in RejectionMessages)
            => reqs[r].err.class # reqs[q].err.class

\* C16 as amended: a rejection for insufficient stock has the bad-request
\* class, the class of every other validation rejection, and differs from
\* them by its message only
C16_StockIsBadRequest ==
    \A r \in Reqs :
        (/\ reqs[r].pc = "failed"
         /\ reqs[r].err.message \in RejectionMessages \cup {"Insufficient stock"})
            => reqs[r].err.class = "BadRequest"

C16_Witness ==
    \E r, q \in Reqs :
        /\ reqs[r].pc = "failed" /\ reqs[q].pc = "failed"
        /\ reqs[r].err.message = "Insufficient stock"
        /\ reqs[q].err.message = "Quantity must be greater than 0"
        /\ reqs[r].err.class = reqs[q].err.class

\* C17: a placement that returns an order of its own has created exactly one
\* order, owned by its buyer, with one line per requested item in the given
\* order, and PENDING when it is committed; a replay creates none; every
\* order was committed by such a placement
C17_OneOrderPerPlacement ==
    /\ [](/\ \A r \in Reqs : reqs[r].pc = "done" =>
               IF reqs[r].result = r
               THEN /\ Cardinality({o \in orders : o.id = r}) = 1
                    /\ \A o \in orders : o.id = r =>
                         /\ o.userId = reqs[r].userId
                         /\ Len(o.items) = Len(reqs[r].items)
                         /\ \A i \in DOMAIN o.items :
                              /\ o.items[i].productId = reqs[r].items[i].productId
                              /\ o.items[i].qty = reqs[r].items[i].qty
               ELSE ~Committed(r)
          /\ \A o \in orders :
               /\ o.id \in Reqs
               /\ reqs[o.id].pc \in {"committed", "done"}
               /\ reqs[o.id].pc = "done" => reqs[o.id].result = o.id)
    /\ [][\A o \in orders' :
            (\A x \in orders : x.id # o.id)
                => /\ o.status = "PENDING"
                   /\ reqs[o.id].pc = "dec"
                   /\ reqs'[o.id].pc = "committed"]_vars

C17_Witness ==
    \E r, q \in Reqs :
        /\ reqs[r].pc = "done" /\ reqs[r].result = r
        /\ reqs[r].userId = "u2"
        /\ \E o \in orders :
              o.id = r /\ o.userId = "u2" /\ o.status = "PENDING" /\ Len(o.items) = 2
        /\ reqs[q].pc = "done" /\ reqs[q].result = q
        /\ reqs[q].userId = "u1"
        /\ Cardinality(orders) = 2

\* the step is the answer to a status-update request
IsPatchStatus == resp'.n = resp.n + 1 /\ resp'.op = "updateStatus"

\* C18: the status of an order changes only in a status update requested by
\* an ADMIN caller; a status update requested by any other caller is
\* answered Forbidden and changes no order
C18_StatusOnlyByAdmin ==
    /\ [][\A id \in OrderIds :
            (StatusOf(id) # "" /\ StatusIn(orders', id) # StatusOf(id))
                => /\ IsPatchStatus
                   /\ resp'.caller.role = "ADMIN"
                   /\ resp'.id = id]_vars
    /\ [][(IsPatchStatus /\ resp'.caller.role # "ADMIN")
            => (resp'.result.kind = "Forbidden" /\ orders' = orders)]_vars

C18_Witness ==
    /\ resp.op = "updateStatus"
    /\ resp.caller = Customer("u1")
    /\ resp.result.kind = "Forbidden"
    /\ \E o \in orders :
          o.id = resp.id /\ o.userId = "u1" /\ o.status = "PENDING"
                         /\ resp.arg = "PAID"

\* C19: a status update of an existing order succeeds whatever its current
\* and its new status are, and leaves the order with the new status and
\* every other order as it was; for an id of no order it answers NotFound
\* and changes no order
C19_AnyTransition ==
    [][(IsPatchStatus /\ resp'.caller.role = "ADMIN") =>
          IF \E o \in orders : o.id = resp'.id
          THEN /\ resp'.before \in Statuses /\ resp'.arg \in Statuses
               /\ resp'.result.kind = "Order"
               /\ resp'.result.order.status = resp'.arg
               /\ StatusIn(orders', resp'.id) = resp'.arg
               /\ \A o \in orders : o.id # resp'.id => o \in orders'
               /\ Cardinality(orders') = Cardinality(orders)
          ELSE /\ resp'.result = NotFound(resp'.id)
               /\ orders' = orders]_vars

C19_Witness ==
    /\ resp.op = "updateStatus"
    /\ resp.before = "FULFILLED"
    /\ resp.arg = "PENDING"
    /\ resp.result.kind = "Order"
    /\ StatusOf(resp.id) = "PENDING"

\* C20: the line items of a committed order, with their unit prices,
\* quantities and line totals, and the order total are the same after every
\* step: a catalog update, a placement, a replay or a status update
C20_LinesFrozen ==
    [][\A o \in orders : \E o2 \in orders' :
          /\ o2.id = o.id
          /\ o2.items = o.items
          /\ o2.totalFils = o.totalFils]_vars

C20_Witness ==
    /\ products["p1"].priceFils = 4
    /\ resp.op = "updateStatus" /\ resp.result.kind = "Order"
    /\ \E o \in orders :
          /\ o.status = "PAID"
          /\ \E i \in DOMAIN o.items :
                /\ o.items[i].productId = "p1"
                /\ o.items[i].unitPriceFils = 3
                /\ o.items[i].lineTotalFils = 3

\* C21: the response of a replay equals the response the creating placement
\* returned: same order id, total, status and line items, each line item
\* with the same fields, the nested product details included
C21_ReplayEqualsOriginal ==
    \A r \in Reqs :
        (reqs[r].pc = "done" /\ reqs[r].result # r)
            => reqs[r].response = reqs[reqs[r].result].response

\* C22: every placement that has started ends with an order or an error,
\* also when two placements decrement the same two stock rows in opposite
\* order inside their transactions
C22_EveryPlacementCompletes ==
    \A r \in Reqs :
        (reqs[r].pc # "idle") ~> (reqs[r].pc \in {"done", "failed"})

C22_Witness ==
    \E r, q \in Reqs :
        /\ r # q
        /\ Waiting(r) /\ Waiting(q)
        /\ reqs[r].items = <<Item("p1", 1), Item("p2", 1)>>
        /\ reqs[q].items = <<Item("p2", 1), Item("p1", 1)>>
        /\ "p1" \in LockedBy(r) /\ "p2" \in LockedBy(q)

\* the item list is non-empty, its product ids are pairwise distinct and
\* name active products, every quantity is at least 1 and at most the stock
ValidPlacement(items, prods) ==
    /\ Len(items) > 0
    /\ \A i, j \in DOMAIN items :
          items[i].productId = items[j].productId => i = j
    /\ \A i \in DOMAIN items :
          /\ items[i].productId \in DOMAIN prods
          /\ prods[items[i].productId].isActive
          /\ items[i].qty >= 1
          /\ items[i].qty <= prods[items[i].productId].stock

\* C23: a placement that runs alone is accepted exactly when its item list
\* is non-empty, with pairwise distinct ids of active products and every
\* quantity between 1 and the product's stock; an accepted placement that
\* the store does not fail commits, and takes each quantity off the stock,
\* down to 0 when it asks for all of it
C23_SequentialAcceptance ==
    /\ [][\A r \in Reqs :
            /\ (reqs[r].pc \in {"idle", "lookup"} /\ reqs'[r].pc = "failed")
                  => ~ValidPlacement(reqs'[r].items, products)
            /\ (reqs[r].pc = "lookup" /\ reqs'[r].pc = "tx")
                  => ValidPlacement(reqs[r].items, products)
            /\ (reqs[r].pc = "dec" /\ reqs'[r].pc = "committed")
                  => /\ ValidPlacement(reqs[r].items, products)
                     /\ \A i \in DOMAIN reqs[r].items :
                          LET p == reqs[r].items[i].productId IN
                          /\ products'[p].stock
                                = products[p].stock - reqs[r].items[i].qty
                          /\ products'[p].stock >= 0]_vars
    /\ [](\A r \in Reqs :
            /\ reqs[r].pc = "done" => Committed(r)
            /\ reqs[r].pc = "failed" =>
                  (~Committed(r) /\
                     (reqs[r].err = Transient
                        \/ ~ValidPlacement(reqs[r].items, products))))

C23_Witness ==
    \E r \in Reqs :
        /\ reqs[r].pc = "done"
        /\ reqs[r].items = <<Item("p1", 2)>>
        /\ Committed(r)
        /\ products["p1"].stock = 0

\* C24: every line item of a committed order has the requested quantity of
\* its item, the catalog price read by the placement's catalog lookup as its
\* unit price, and their product as its line total
C24_LineTotalFromSnapshot ==
    /\ [][\A r \in Reqs :
            (reqs[r].pc = "lookup" /\ reqs'[r].pc = "tx") =>
                /\ Len(reqs'[r].orderItems) = Len(reqs[r].items)
                /\ \A i \in DOMAIN reqs[r].items :
                      LET line == reqs'[r].orderItems[i]
                          item == reqs[r].items[i]
                      IN  /\ line.productId = item.productId
                          /\ line.qty = item.qty
                          /\ line.unitPriceFils
                                = products[item.productId].priceFils
                          /\ line.lineTotalFils
                                = item.qty * products[item.productId].priceFils]_vars
    /\ [](\A o \in orders :
            /\ o.items = reqs[o.id].orderItems
            /\ \A i \in DOMAIN o.items :
                  o.items[i].lineTotalFils
                      = o.items[i].qty * o.items[i].unitPriceFils)

C24_Witness ==
    /\ products["p1"].priceFils = 4
    /\ resp.n = 1
    /\ \E o \in orders :
          /\ reqs[o.id].pc = "done"
          /\ o.items = <<[productId |-> "p1", qty |-> 1, unitPriceFils |-> 3,
                          lineTotalFils |-> 3],
                         [productId |-> "p2", qty |-> 1, unitPriceFils |-> 5,
                          lineTotalFils |-> 5]>>

\* C25: every entry of the idempotency cache names a committed order of the
\* buyer of its key; a step that fails a placement writes no entry, and a
\* placement whose earlier placements with the same buyer and token all
\* failed is not answered from the cache
C25_CacheNamesCommittedOrders ==
    /\ [](/\ \A ck \in DOMAIN recentOrders :
               \E o \in orders :
                  /\ o.id = recentOrders[ck].orderId
                  /\ reqs[o.id].key # NoKey
                  /\ ck = CacheKey(o.userId, reqs[o.id].key)
          /\ \A r \in Reqs :
               (/\ reqs[r].pc # "idle"
                /\ reqs[r].key # NoKey
                /\ \A q \in Reqs :
                      (q < r /\ reqs[q].userId = reqs[r].userId
                             /\ reqs[q].key = reqs[r].key)
                          => reqs[q].pc = "failed")
                   => reqs[r].pc # "replay" /\ reqs[r].fresh)
    /\ [][\A r \in Reqs :
            (reqs[r].pc # "failed" /\ reqs'[r].pc = "failed")
                => UNCHANGED <<recentOrders, timers>>]_vars

C25_Witness ==
    \E q, r \in Reqs :
        /\ q < r
        /\ reqs[q].key = "k1" /\ reqs[r].key = "k1"
        /\ reqs[q].userId = reqs[r].userId
        /\ reqs[q].pc = "failed"
        /\ reqs[r].pc = "done" /\ reqs[r].result = r /\ Committed(r)
        /\ CacheKey(reqs[r].userId, "k1") \in DOMAIN recentOrders
        /\ recentOrders[CacheKey(reqs[r].userId, "k1")].orderId = r

\* C26: a call with a token whose cache entry is younger than 5 s is
\* answered from the cache whatever its item list is, before any check of
\* the list: it returns the cached order, and its steps leave stock, orders
\* with their line items and the cache entry with its timestamp unchanged
C26_ReplayHasNoEffect ==
    /\ [][\A r \in Reqs :
            LET ck == CacheKey(reqs'[r].userId, reqs'[r].key) IN
            (/\ reqs[r].pc = "idle" /\ reqs'[r].pc # "idle"
             /\ reqs'[r].key # NoKey
             /\ ck \in DOMAIN recentOrders
             /\ now - recentOrders[ck].timestamp < WindowMs)
                => /\ reqs'[r].pc = "replay"
                   /\ reqs'[r].result = recentOrders[ck].orderId
                   /\ UNCHANGED <<products, orders, recentOrders, timers>>]_vars
    /\ [][\A r \in Reqs :
            (reqs[r].pc = "replay" /\ reqs'[r] # reqs[r])
                => /\ reqs'[r].pc = "done"
                   /\ reqs'[r].err = NoErr
                   /\ reqs'[r].result = reqs[r].result
                   /\ reqs'[r].response # <<>>
                   /\ reqs'[r].response.id = reqs[r].result
                   /\ UNCHANGED <<products, orders, recentOrders, timers>>]_vars

C26_Witness ==
    \E q, r \in Reqs :
        /\ reqs[q].pc = "done" /\ reqs[r].pc = "done"
        /\ reqs[q].items = <<>>
        /\ reqs[r].items = <<Item("pX", 1), Item("p1", 3)>>
        /\ reqs[q].result = 1 /\ reqs[r].result = 1
        /\ Cardinality(orders) = 1
        /\ products["p1"].stock = InitProducts["p1"].stock - 1
        /\ recentOrders[CacheKey("u1", "k1")].timestamp < now

\* tokens a client may choose, some of them shaped like part of a cache key
ChosenTokens == {"k1", "u1-k1", "u2-k1", "-k1", "k1-"}

\* the cache keys of two different pairs of buyer and token differ
CacheKeysDistinct ==
    \A b1, b2 \in Buyers : \A t1, t2 \in ChosenTokens :
        CacheKey(b1, t1) = CacheKey(b2, t2) => (b1 = b2 /\ t1 = t2)

\* C27: the order a replay returns is owned by the requesting buyer: the
\* cache keys of two different pairs of buyer and token differ, and every
\* cache entry, every replay in progress and every replayed response names
\* an order of the buyer of the call
C27_ReplayOwnOrder ==
    /\ CacheKeysDistinct
    /\ \A r \in Reqs :
          /\ reqs[r].pc = "replay" =>
                \E o \in orders :
                   o.id = reqs[r].result /\ o.userId = reqs[r].userId
          /\ (reqs[r].pc = "done" /\ reqs[r].result # r) =>
                /\ reqs[r].response # <<>>
                /\ reqs[r].response.id = reqs[r].result
                /\ reqs[r].response.userId = reqs[r].userId

C27_Witness ==
    \E q, r \in Reqs :
        /\ reqs[q].userId = "u1" /\ reqs[q].key = "k1"
        /\ reqs[q].pc = "done" /\ reqs[q].result = q
        /\ CacheKey("u1", "k1") \in DOMAIN recentOrders
        /\ recentOrders[CacheKey("u1", "k1")].orderId = q
        /\ reqs[r].userId = "u2" /\ reqs[r].key = "k1"
        /\ reqs[r].pc = "done" /\ reqs[r].result \notin {q, r}
        /\ reqs[r].response.userId = "u2"

\* C28: no entry stays in the idempotency cache for ever: every entry has
\* an armed timer for its key as long as it is there, every entry is removed
\* at some time, and in the end the cache stays empty
C28_EveryEntryEvicted ==
    /\ [](\A ck \in DOMAIN recentOrders : \E t \in timers : t.cacheKey = ck)
    /\ \A b \in Buyers : \A k \in Keys :
          (CacheKey(b, k) \in DOMAIN recentOrders)
              ~> (CacheKey(b, k) \notin DOMAIN recentOrders)
    /\ <>[](recentOrders = <<>> /\ timers = {})

C28_Witness ==
    /\ recentOrders = <<>>
    /\ timers = {}
    /\ \E q, r \in Reqs :
          /\ q # r
          /\ reqs[q].pc = "done" /\ reqs[q].result = q
          /\ reqs[r].pc = "done" /\ reqs[r].result = r
          /\ reqs[q].key = "k1" /\ reqs[r].key = "k1"
          /\ reqs[q].userId = reqs[r].userId

\* the item list names one product id in two or more items
HasDuplicate(items) ==
    \E i, j \in DOMAIN items :
        i # j /\ items[i].productId = items[j].productId

\* C29: a placement whose item list names one product id twice is rejected
\* with 'One or more products not found' and changes nothing, also when the
\* product is active and has stock for the quantities together
C29_DuplicateIdsRejected ==
    /\ [](\A r \in Reqs : HasDuplicate(reqs[r].items) =>
            /\ reqs[r].pc \in {"idle", "lookup", "failed"}
            /\ reqs[r].pc = "failed" =>
                  reqs[r].err.message = "One or more products not found"
            /\ ~Committed(r))
    /\ [][\A r \in Reqs :
            (HasDuplicate(reqs'[r].items) /\ reqs'[r] # reqs[r])
                => UNCHANGED <<products, orders, recentOrders, timers>>]_vars

C29_Witness ==
    \E r \in Reqs :
        /\ reqs[r].pc = "failed"
        /\ reqs[r].items = <<Item("p1", 1), Item("p1", 1)>>
        /\ reqs[r].err.message = "One or more products not found"
        /\ products["p1"].isActive
        /\ products["p1"].stock = 2

\* C30: a status update changes the status of its order and nothing else:
\* the total, buyer and line items of that order, every other order, the
\* idempotency cache and every product row stay as they were
C30_StatusUpdateFrame ==
    [][IsPatchStatus =>
          /\ UNCHANGED <<products, recentOrders, timers>>
          /\ Cardinality(orders') = Cardinality(orders)
          /\ \A o \in orders : \E o2 \in orders' :
                /\ o2 = [o EXCEPT !.status = o2.status]
                /\ o.id # resp'.id => o2 = o]_vars

C30_Witness ==
    /\ resp.n = 1
    /\ resp.op = "updateStatus"
    /\ resp.arg = "CANCELLED"
    /\ resp.result.kind = "Order"
    /\ \E o \in orders :
          /\ o.id = resp.id
          /\ o.status = "CANCELLED"
          /\ o.items = <<[productId |-> "p1", qty |-> 1, unitPriceFils |-> 3,
                          lineTotalFils |-> 3]>>
    /\ Cardinality(orders) = 1
    /\ products["p1"].stock = InitProducts["p1"].stock - 1
    /\ DOMAIN recentOrders = {CacheKey("u1", "k1")}

\* C31: duplicate suppression holds across instances: two completed
\* placements with the same buyer and the same token within 5 s yield a
\* single order, whichever instances handled them (the clock of SpecScale
\* stands still, so any two of its placements are within 5 s)
C31_OneOrderAcrossInstances ==
    \A q, r \in Reqs :
        ( /\ reqs[q].pc = "done" /\ reqs[r].pc = "done"
          /\ reqs[q].key # NoKey
          /\ reqs[q].key = reqs[r].key
          /\ reqs[q].userId = reqs[r].userId )
        => reqs[q].result = reqs[r].result

\* the orders the caller may see: all for ADMIN, the caller's own otherwise
VisibleTo(user) ==
    IF user.role = "ADMIN" THEN orders
    ELSE {o \in orders : o.userId = user.id}

\* the least n with n * l >= t
LeastPages(t, l) == CHOOSE n \in 0..t : n * l >= t /\ \A m \in 0..(n - 1) : m * l < t

\* o can stand at position pos of V sorted by creation time descending:
\* fewer than pos orders of V are newer, at least pos are as new or newer
CanStandAt(o, pos, V) ==
    /\ Cardinality({x \in V : x.createdAt > o.createdAt}) < pos
    /\ Cardinality({x \in V : x.createdAt >= o.createdAt}) >= pos

\* C32: findAll with page p >= 1 and limit l in 1..100 returns at most l
\* orders, those at positions (p-1)*l+1 .. p*l of the caller-visible orders
\* sorted by creation time descending, and reports total = the number of
\* caller-visible orders, totalPages = ceil(total / l),
\* hasNext = (p < totalPages) and hasPrev = (p > 1)
C32_Pagination ==
    \A user \in QueryUsers, p \in QueryPages, l \in QueryLimits :
        \A res \in FindAll(p, l, user) :
            LET V == VisibleTo(user)
                total == Cardinality(V)
                first == (p - 1) * l + 1
                last == IF p * l < total THEN p * l ELSE total
            IN  /\ Len(res.data) <= l
                /\ Len(res.data) = IF last < first THEN 0 ELSE last - first + 1
                /\ \A i \in DOMAIN res.data :
                      /\ res.data[i] \in V
                      /\ CanStandAt(res.data[i], first + i - 1, V)
                /\ \A i, j \in DOMAIN res.data :
                      i # j => res.data[i] # res.data[j]
                /\ res.meta.total = total
                /\ res.meta.totalPages = LeastPages(total, l)
                /\ res.meta.hasNext = (p < LeastPages(total, l))
                /\ res.meta.hasPrev = (p > 1)

\* three orders made at three instants; the admin's second page of two holds
\* the oldest one, the first page of two has a next page
C32_Witness ==
    /\ Cardinality(orders) = 3
    /\ \A o1, o2 \in orders : o1 # o2 => o1.createdAt # o2.createdAt
    /\ \E res \in FindAll(2, 2, Admin) :
          /\ Len(res.data) = 1
          /\ \A o \in orders : o.createdAt >= res.data[1].createdAt
          /\ res.meta.totalPages = 2
          /\ res.meta.hasPrev /\ ~res.meta.hasNext
    /\ \E res \in FindAll(1, 2, Admin) : res.meta.hasNext /\ ~res.meta.hasPrev
    /\ \E res \in FindAll(1, 1, Customer("u1")) :
          res.meta.total = 2 /\ res.meta.totalPages = 2

TypeOK ==
    /\ \A p \in ProductIds : products[p].stock \in Int
    /\ now \in Nat
    /\ instance \in Instances
    /\ DOMAIN parked = Instances

====
